---- MODULE Spec2Model ----
(***************************************************************************)
(* A model of plugins/module_utils/psmapi.py: call_client, the one SMAPI   *)
(* exchange (connect, send one frame, two receives, parse, close).         *)
(*                                                                         *)
(* Python str and bytes values are sequences of naturals (code points or   *)
(* byte values); a code point or byte >= 128 is not ASCII.  The socket is  *)
(* the environment: every call on it may fail, and the peer decides what   *)
(* each recv returns.                                                      *)
(***************************************************************************)
EXTENDS Integers, Sequences, FiniteSets, TLC

\* ------------------------------------------------------------------ bounds
\* longest request text (api name, user, password, target, command)
MaxLen == 2
\* most trailing command arguments passed to call_client
MaxArgs == 2
\* most message lines a peer puts in a response
MaxLines == 3
\* longest message line a peer sends
MaxLineLen == 1
\* most invocations of a task, one after the other
MaxRuns == 2

\* ------------------------------------------------------- program constants
\* the value resp_length, request_num, return_code and reason_code start with
Unset9999 == 9999
\* "\n", appended to every decoded message line
Newline == 10

\* ------------------------------------------------------------ pure helpers
Min(a, b) == IF a < b THEN a ELSE b

Rep(c, k) == [j \in 1..k |-> c]

\* s[a:b] of Python, for 0 <= a
PySlice(s, a, b) ==
  IF a >= Min(b, Len(s)) THEN << >> ELSE SubSeq(s, a + 1, Min(b, Len(s)))

\* s[a:] of Python, for 0 <= a
PyFrom(s, a) == PySlice(s, a, Len(s))

\* n.to_bytes(4, byteorder='big')
ToBytes4(n) ==
  << (n \div 16777216) % 256, (n \div 65536) % 256, (n \div 256) % 256, n % 256 >>

\* int.from_bytes(b, byteorder='big'); the empty string gives 0
RECURSIVE FromBytes(_)
FromBytes(b) ==
  IF b = << >> THEN 0
  ELSE FromBytes(SubSeq(b, 1, Len(b) - 1)) * 256 + b[Len(b)]

\* whether s.encode('ASCII') / b.decode('ASCII') succeeds (strict)
IsAscii(s) == \A j \in 1..Len(s) : s[j] < 128

\* len(x).to_bytes(4, byteorder='big') + x.encode('ASCII')
LenPrefixed(x) == ToBytes4(Len(x)) \o x

\* ---------------------------------------------------------------- state
VARIABLES
  authuser, authpass, target, apicommand, args,   \* the call's arguments
  pc,                \* where the call is
  thecommand, cmdbytes,
  numzeros, resp_length, request_num, return_code, reason_code,
  num_messages, response, messages, message_lines, i,
  retval,            \* what call_client returned
  raisedAt,          \* the step that raised, "none" when none did
  peer,              \* what the peer answers, settled when it gets the frame
  wire,              \* the chunks the next recv calls return
  io,                \* the calls made on the socket, in order
  sent,              \* the byte strings passed to sendall
  log                \* the lines printed

inputs == << authuser, authpass, target, apicommand, args >>
locals == << thecommand, cmdbytes, numzeros, resp_length, request_num,
             return_code, reason_code, num_messages, response, messages,
             message_lines, i >>

\* the Ansible module that is running (plugins/modules/zvm_*.py, run_module)
VARIABLES
  module,            \* which module runs, "none" before any does
  params,            \* module.params
  check_mode,        \* module.check_mode
  mpc,               \* where run_module is
  flag_format,       \* zvm_minidisk's flag_format
  locladdr,          \* zvm_minidisk's locladdr
  smcli_results,     \* what the primary command gave: rc, stdout, stderr
  result,            \* the result dict
  scanned,           \* whether the benign-text scan has run
  cmds,              \* the external commands run, in order
  outcome,           \* how the module ended
  runs,              \* how many times the task has been invoked
  prev               \* what the invocation before this one ended with

\* a second call_client running at the same time in another thread
VARIABLES
  other,             \* the call that is not running now: its arguments,
                     \* locals and connection
  active             \* which of the two calls is running now, 1 or 2

run == << module, params, check_mode, mpc, flag_format, locladdr, smcli_results,
          result, scanned, cmds, outcome >>
history == << runs, prev >>
pair == << other, active >>

\* what no step of call_client touches
context == << run, history, pair >>

vars == << inputs, pc, locals, retval, raisedAt, peer, wire, io, sent, log,
           context >>

\* ------------------------------------------------------ what a call is given
\* texts over one ASCII character, and one text that is not ASCII
TextsOf(c) == { Rep(c, k) : k \in 0..MaxLen } \cup { << 233 >> }

\* the trailing *args: none, or n copies of a command text
ArgsOf(T) == { Rep(t, n) : t \in T, n \in 0..MaxArgs }

\* --------------------------------------------------------- what a peer sends
RECURSIVE Flatten(_)
Flatten(ss) == IF ss = << >> THEN << >> ELSE Head(ss) \o Flatten(Tail(ss))

\* the lines as the wire carries them: [u32 line_len][line bytes] each
WireLines(lines) == Flatten([ j \in 1..Len(lines) |-> LenPrefixed(lines[j]) ])

\* response part 2: [total_len][request_number][return_code][reason_code]
\* [message_count] and the lines; total_len counts what follows it (the
\* client never reads total_len or request_number back)
Frame(rc, rs, count, lines) ==
  LET rest == ToBytes4(1) \o ToBytes4(rc) \o ToBytes4(rs) \o ToBytes4(count)
              \o WireLines(lines)
  IN  ToBytes4(Len(rest)) \o rest

\* a peer: the phase-1 chunk, the frame's fields, and how many bytes of the
\* frame the phase-2 recv returns
Peer(first, rc, rs, count, lines, keep) ==
  [ first |-> first, rc |-> rc, rs |-> rs, count |-> count, lines |-> lines,
    keep |-> keep ]

FrameOf(p) == Frame(p.rc, p.rs, p.count, p.lines)

WireOf(p) == << p.first, PySlice(FrameOf(p), 0, p.keep) >>

SeqsUpTo(S, n) == UNION { [ 1..k -> S ] : k \in 0..n }

\* message lines: ASCII lines of every length (the empty one too), and one
\* line that is not ASCII
LineTexts == { Rep(77, k) : k \in 0..MaxLineLen } \cup { << 200 >> }

\* (return_code, reason_code) pairs: success, a failure, the largest the
\* model's integers hold
CodePairs == { << 0, 0 >>, << 400, 8 >>, << 2147483647, 65536 >> }

\* every prefix of the frame may be all the phase-2 recv returns
Cuts(frame) == 0..Len(frame)

\* the peers that send up to m lines, none longer than len, and deliver any
\* prefix of their frame to the phase-2 recv
PeersWith(m, len) ==
  { p \in { Peer(ToBytes4(1), c[1], c[2], n, ls, k) :
              c \in CodePairs, n \in 0..(m + 1),
              ls \in SeqsUpTo(LineTexts, m), k \in 0..(20 + m * (4 + len)) } :
      p.keep \in Cuts(FrameOf(p)) }

\* a peer whose whole frame arrives in the phase-2 recv
FullPeer(first, rc, rs, count, lines) ==
  Peer(first, rc, rs, count, lines, Len(Frame(rc, rs, count, lines)))

SamplePeers ==
  { FullPeer(ToBytes4(1), 0, 0, 2, << << 77 >>, << 77, 78 >> >>),
    FullPeer(ToBytes4(1), 400, 8, 1, << << 200 >> >>),
    Peer(<< >>, 0, 0, 0, << >>, 0) }

\* ----------------------------------------------------------------- Init
\* Before the call: no argument and no local is bound yet (numbers show as
\* -1, strings as empty), no peer has answered and nothing has been returned.
NoValue == [ isList |-> FALSE, items |-> << >> ]

\* Python's None, and a value that is set
None == << >>
Some(v) == << v >>

\* a Python str and a Python list, told apart
Text(s) == [ str |-> s ]
ListOf(xs) == [ list |-> xs ]

\* the result dict every run_module starts with
InitialResult ==
  [ changed |-> FALSE, return_stdout |-> ListOf(<< >>),
    return_stderr |-> ListOf(<< >>), return_code |-> -9, reason_code |-> -9 ]

\* no exit yet
NoOutcome == [ via |-> "none", by |-> "none", msg |-> "", out |-> InitialResult ]

\* no command has run
NoResults == [ rc |-> -9, stdout |-> "", stderr |-> "", from |-> "none" ]

\* no earlier invocation
NoRun == [ rc |-> -9, stdout |-> "", errs |-> << >>, kind |-> "none" ]

\* before run_module is entered
InitRun ==
  /\ module = "none" /\ params = None /\ check_mode = FALSE
  /\ mpc = "idle" /\ flag_format = FALSE /\ locladdr = ""
  /\ smcli_results = NoResults
  /\ result = InitialResult
  /\ scanned = FALSE
  /\ cmds = << >>
  /\ outcome = NoOutcome

\* a call that has not been entered yet
NotEntered ==
  [ apicommand |-> << >>, authuser |-> << >>, authpass |-> << >>,
    target |-> << >>, args |-> << >>,
    peer |-> Peer(<< >>, 0, 0, 0, << >>, 0), wire |-> << >>, pc |-> "call",
    thecommand |-> << >>, cmdbytes |-> << >>, numzeros |-> -1,
    resp_length |-> -1, request_num |-> -1, return_code |-> -1,
    reason_code |-> -1, num_messages |-> -1, response |-> << >>,
    messages |-> << >>, message_lines |-> << >>, i |-> -1, retval |-> NoValue,
    raisedAt |-> "none", io |-> << >>, sent |-> << >>, log |-> << >> ]

Init ==
  /\ InitRun
  /\ runs = 0 /\ prev = NoRun
  /\ other = NotEntered /\ active = 1
  /\ apicommand = << >> /\ authuser = << >> /\ authpass = << >>
  /\ target = << >> /\ args = << >>
  /\ peer = Peer(<< >>, 0, 0, 0, << >>, 0)
  /\ wire = << >>
  /\ pc = "call"
  /\ thecommand = << >> /\ cmdbytes = << >>
  /\ numzeros = -1 /\ resp_length = -1 /\ request_num = -1
  /\ return_code = -1 /\ reason_code = -1 /\ num_messages = -1
  /\ response = << >> /\ messages = << >> /\ message_lines = << >>
  /\ i = -1
  /\ retval = NoValue
  /\ raisedAt = "none"
  /\ io = << >> /\ sent = << >> /\ log = << >>

\* ------------------------------------------------------------- the steps
\* a printed line that shows the password too
LineWithPass(text, value) == << text, value \o authpass >>

\* a printed line: its fixed text and the value formatted into it
Line(text, value) == << text, value >>

\* line 22: call_client is entered with its arguments bound
CallWith(Apis, Users, Passes, Targets, Args) ==
  /\ pc = "call"
  /\ apicommand' \in Apis
  /\ authuser' \in Users
  /\ authpass' \in Passes
  /\ target' \in Targets
  /\ args' \in Args
  /\ pc' = "connect"
  /\ UNCHANGED << locals, retval, raisedAt, peer, wire, io, sent, log >>

\* every request
Call ==
  /\ CallWith(TextsOf(67), TextsOf(85), TextsOf(80), TextsOf(84),
              ArgsOf(TextsOf(88)))
  /\ UNCHANGED context

\* a few requests: "Cp" for "U" with password "P" or one that is not ASCII,
\* on "T", with one command "X" or one too many
CallSample ==
  /\ CallWith({ << 67, 112 >> }, { << 85 >> }, { << 80 >>, << 233 >> }, { << 84 >> },
              { << << 88 >> >>, << << 88 >>, << 88 >> >> })
  /\ UNCHANGED context

\* lines 23-29: the socket is created and connected, outside any try
Connect ==
  /\ pc = "connect"
  /\ log' = Append(log, Line("Connecting to server", << >>))
  /\ io' = Append(io, "connect")
  /\ \/ pc' = "prologue" /\ UNCHANGED raisedAt
     \/ pc' = "raised" /\ raisedAt' = "connect"
  /\ UNCHANGED << inputs, locals, retval, peer, wire, sent, context >>

\* lines 31-47: the locals get their first values; more than one command
\* argument ends the call at line 45 with return_code alone
Prologue ==
  /\ pc = "prologue"
  /\ numzeros' = 0
  /\ resp_length' = Unset9999 /\ request_num' = Unset9999
  /\ return_code' = Unset9999 /\ reason_code' = Unset9999
  /\ message_lines' = << >>
  /\ thecommand' = IF Len(args) = 1 THEN args[1] ELSE << >>
  /\ IF Len(args) > 1
       THEN /\ log' = Append(log, Line("ERROR: What the heck more than 1 command string ?", << >>))
            /\ retval' = [ isList |-> FALSE, items |-> << Unset9999 >> ]
            /\ pc' = "returned"
       ELSE /\ log' = Append(log, Line("", thecommand'))
            /\ pc' = "assemble"
            /\ UNCHANGED retval
  /\ UNCHANGED << inputs, cmdbytes, num_messages, response, messages, i,
                  raisedAt, peer, wire, io, sent, context >>

\* cmdstring with the password put before the user
CmdStringPassFirst(api, user, pass, tgt, cmd) ==
  LenPrefixed(api) \o LenPrefixed(pass) \o LenPrefixed(user) \o LenPrefixed(tgt)
  \o cmd

\* lines 53-62: cmdstring, each of the four fields behind its length
CmdString(api, user, pass, tgt, cmd) ==
  LenPrefixed(api) \o LenPrefixed(user) \o LenPrefixed(pass) \o LenPrefixed(tgt)
  \o cmd

\* line 65: cmdbytes, cmdstring behind its own length
CmdBytes(cmdstring) == ToBytes4(Len(cmdstring)) \o cmdstring

\* lines 49-65, outside any try: a text that is not ASCII raises
\* UnicodeEncodeError out of call_client
Assemble ==
  /\ pc = "assemble"
  /\ log' = Append(log, Line("Assembling the command string", << >>))
  /\ IF \A t \in { apicommand, authuser, authpass, target, thecommand } : IsAscii(t)
       THEN /\ cmdbytes' = CmdBytes(CmdString(apicommand, authuser, authpass,
                                               target, thecommand))
            /\ pc' = "send"
            /\ UNCHANGED raisedAt
       ELSE /\ pc' = "raised"
            /\ raisedAt' = "encode"
            /\ UNCHANGED cmdbytes
  /\ UNCHANGED << inputs, thecommand, numzeros, resp_length, request_num,
                  return_code, reason_code, num_messages, response, messages,
                  message_lines, i, retval, peer, wire, io, sent, context >>

\* lines 132-136: the list call_client returns
Results(rc, rs, ml) == [ isList |-> TRUE, items |-> << rc, rs, ml >> ]

\* lines 128-136: the finally clause closes the socket, then the results
\* are returned
CloseAndReturn(logNow, ioNow) ==
  /\ log' = Append(logNow, Line("Closing connection", << >>))
  /\ io' = Append(ioNow, "close")
  /\ retval' = Results(return_code, reason_code, message_lines)
  /\ pc' = "returned"

\* the next recv's result: the peer's next chunk, b'' once it has no more
NextChunk == IF wire = << >> THEN << >> ELSE Head(wire)
RestOfWire == IF wire = << >> THEN << >> ELSE Tail(wire)

\* lines 68-73: sendall inside the try; a failure is caught at line 124.
\* The peer that got the frame settles what it answers.
SendAllTo(Peers) ==
  /\ pc = "send"
  /\ sent' = Append(sent, cmdbytes)
  /\ LET log1 == Append(log, Line("Sending the command string to SMAPI", << >>))
         io1 == Append(io, "sendall")
     IN  \/ /\ pc' = "loop"
            /\ peer' \in Peers
            /\ wire' = WireOf(peer')
            /\ log' = log1 /\ io' = io1
            /\ UNCHANGED << retval, raisedAt >>
         \/ /\ raisedAt' = "sendall"
            /\ UNCHANGED << peer, wire >>
            /\ CloseAndReturn(Append(log1, Line("Socket Error", << >>)), io1)
  /\ UNCHANGED << inputs, locals, context >>

\* a few peers
SendAll == SendAllTo(SamplePeers)

\* every peer
SendAllRich == SendAllTo(PeersWith(MaxLines, MaxLineLen))

\* a loop test that lets the body run again
LoopAgainTwice(nz) == nz < 2

\* line 74: while numzeros < 1
LoopAgain(nz) == nz < 1

\* line 74, and lines 128-136 when the loop is left
LoopTest ==
  /\ pc = "loop"
  /\ IF LoopAgain(numzeros)
       THEN /\ pc' = "recv1"
            /\ UNCHANGED << retval, io, log >>
       ELSE CloseAndReturn(log, io)
  /\ UNCHANGED << inputs, locals, raisedAt, peer, wire, sent, context >>

\* lines 75-78: phase 1, whatever one recv returns is the request number
RecvRequestNumber ==
  /\ pc = "recv1"
  /\ LET log1 == Append(log, Line("Reading a response from SMAPI", << >>))
         io1 == Append(io, "recv")
     IN  \/ /\ request_num' = FromBytes(NextChunk)
            /\ wire' = RestOfWire
            /\ log' = Append(log1, Line("pulling off request number", << >>))
            /\ io' = io1
            /\ pc' = "recv2"
            /\ UNCHANGED << retval, raisedAt >>
         \/ /\ raisedAt' = "recv1"
            /\ UNCHANGED << request_num, wire >>
            /\ CloseAndReturn(Append(log1, Line("Socket Error", << >>)), io1)
  /\ UNCHANGED << inputs, thecommand, cmdbytes, numzeros, resp_length,
                  return_code, reason_code, num_messages, response, messages,
                  message_lines, i, peer, sent, context >>

\* lines 86-98: the five header fields, each four bytes of the response
RespLengthOf(resp) == FromBytes(PySlice(resp, 0, 4))
RequestNumOf(resp) == FromBytes(PySlice(resp, 4, 8))
ReturnCodeOfRequestNum(resp) == FromBytes(PySlice(resp, 4, 8))
ReturnCodeOf(resp) == FromBytes(PySlice(resp, 8, 12))
ReasonCodeOf(resp) == FromBytes(PySlice(resp, 12, 16))
NumMessagesOf(resp) == FromBytes(PySlice(resp, 16, 20))

\* line 103: the message lines follow the header
MessagesOf(resp) == PyFrom(resp, 20)

\* lines 81-105: phase 2, whatever one recv returns is the whole response
RecvResponse ==
  /\ pc = "recv2"
  /\ LET log1 == Append(log, Line("pulling off full response", << >>))
         io1 == Append(io, "recv")
     IN  \/ /\ response' = NextChunk
            /\ wire' = RestOfWire
            /\ resp_length' = RespLengthOf(response')
            /\ request_num' = RequestNumOf(response')
            /\ return_code' = ReturnCodeOf(response')
            /\ reason_code' = ReasonCodeOf(response')
            /\ num_messages' = NumMessagesOf(response')
            /\ messages' = MessagesOf(response')
            /\ i' = 0
            /\ log' = Append(log1, Line("SMAPI Response contained VM command response messages, parsing", << >>))
            /\ io' = io1
            /\ pc' = "parse"
            /\ UNCHANGED << message_lines, retval, raisedAt >>
         \/ /\ raisedAt' = "recv2"
            /\ UNCHANGED << resp_length, request_num, return_code, reason_code,
                            num_messages, response, messages, message_lines, i,
                            wire >>
            /\ CloseAndReturn(Append(log1, Line("Socket Error", << >>)), io1)
  /\ UNCHANGED << inputs, thecommand, cmdbytes, numzeros, peer, sent, context >>

\* line 110: the declared length of the next line
LineLenOf(msgs) == FromBytes(PySlice(msgs, 0, 4))

\* a line loop that never breaks
BreakNever(line_len) == FALSE

\* line 112: a declared length of 0 ends the parsing
BreakOnZero(line_len) == line_len = 0

\* line 116: the line, up to the next line's length
LineOf(msgs) == PySlice(msgs, 4, LineLenOf(msgs) + 4)

\* a buffer that is not moved along
AfterLineKept(msgs) == msgs

\* line 118: what is left after the line
AfterLine(msgs) == PyFrom(msgs, LineLenOf(msgs) + 4)

\* lines 106-120: one turn of the line loop; a line that is not ASCII raises
\* UnicodeDecodeError, caught at line 126
ParseLine ==
  /\ pc = "parse"
  /\ i < num_messages
  /\ ~ BreakOnZero(LineLenOf(messages))
  /\ messages' = AfterLine(messages)
  /\ IF IsAscii(LineOf(messages))
       THEN /\ message_lines' = message_lines \o LineOf(messages) \o << Newline >>
            /\ i' = i + 1
            /\ UNCHANGED << pc, retval, raisedAt, io, log >>
       ELSE /\ raisedAt' = "decode"
            /\ UNCHANGED << message_lines, i >>
            /\ CloseAndReturn(Append(log, Line("Some Exception", LineOf(messages))), io)
  /\ UNCHANGED << inputs, thecommand, cmdbytes, numzeros, resp_length,
                  request_num, return_code, reason_code, num_messages, response,
                  peer, wire, sent, context >>

\* lines 106, 112-113 and 122: the line loop ends, by count or by break
EndOfLines ==
  /\ pc = "parse"
  /\ \/ ~ (i < num_messages)
     \/ BreakOnZero(LineLenOf(messages))
  /\ numzeros' = numzeros + 1
  /\ pc' = "loop"
  /\ UNCHANGED << inputs, thecommand, cmdbytes, resp_length, request_num,
                  return_code, reason_code, num_messages, response, messages,
                  message_lines, i, retval, raisedAt, peer, wire, io, sent, log,
                  context >>

Step ==
  \/ Connect
  \/ Prologue
  \/ Assemble
  \/ LoopTest
  \/ RecvRequestNumber
  \/ RecvResponse
  \/ ParseLine
  \/ EndOfLines

\* every request, a few peers
Next == Call \/ SendAll \/ Step

\* a few requests, every peer
NextResponse == CallSample \/ SendAllRich \/ Step

\* the peers that declare as many lines as they send, more, or far more, and
\* deliver any prefix of their frame to the phase-2 recv
CountedPeers(m, len) ==
  { p \in { Peer(ToBytes4(1), 0, 0, n, ls, k) :
              n \in { 0, 1, m + 1, 2147483647 },
              ls \in SeqsUpTo(LineTexts, m), k \in 0..(20 + m * (4 + len)) } :
      p.keep \in Cuts(FrameOf(p)) }

SendAllCounted == SendAllTo(CountedPeers(MaxLines - 1, MaxLineLen))

\* a few requests, peers whose message_count need not be their lines
NextLines == CallSample \/ SendAllCounted \/ Step

Spec == Init /\ [][Next]_vars

\* call_client is straight-line code in one thread: a step that can be taken
\* is taken
SpecLines == Init /\ [][NextLines]_vars /\ WF_vars(Step)

SpecResponse == Init /\ [][NextResponse]_vars

\* ------------------------------------------------- the modules: text values
\* the printable ASCII characters in code order: 32 to 95, and 97 to 126
AsciiTo95 ==
  " !\"#$%&'()*+,-./0123456789:;<=>?@ABCDEFGHIJKLMNOPQRSTUVWXYZ[\\]^_"
AsciiFrom97 == "abcdefghijklmnopqrstuvwxyz{|}~"

\* where the one-character str c is in s, 0 when it is not
IndexIn(s, c) ==
  LET at == { k \in 1..Len(s) : SubSeq(s, k, k) = c }
  IN  IF at = { } THEN 0 ELSE CHOOSE k \in at : TRUE

\* the code point of a one-character str, and the character of a code point
Ord(c) ==
  IF c = "\n" THEN Newline
  ELSE IF IndexIn(AsciiTo95, c) > 0 THEN 31 + IndexIn(AsciiTo95, c)
  ELSE 96 + IndexIn(AsciiFrom97, c)

Chr(n) ==
  IF n = Newline THEN "\n"
  ELSE IF n <= 95 THEN SubSeq(AsciiTo95, n - 31, n - 31)
  ELSE SubSeq(AsciiFrom97, n - 96, n - 96)

\* a str of a module as call_client holds it, and back
Encoded(s) == [ k \in 1..Len(s) |-> Ord(SubSeq(s, k, k)) ]

RECURSIVE Decoded(_)
Decoded(b) == IF b = << >> THEN "" ELSE Chr(Head(b)) \o Decoded(Tail(b))

\* str(n) of an int
RECURSIVE Digits(_)
Digits(n) ==
  IF n < 10 THEN SubSeq("0123456789", n + 1, n + 1)
  ELSE Digits(n \div 10) \o SubSeq("0123456789", (n % 10) + 1, (n % 10) + 1)

StrOf(n) == IF n < 0 THEN "-" \o Digits(0 - n) ELSE Digits(n)

\* s.find(sub): the lowest index where sub occurs in s, -1 when nowhere
Find(s, sub) ==
  LET at == { k \in 0..(Len(s) - Len(sub)) : SubSeq(s, k + 1, k + Len(sub)) = sub }
  IN  IF at = { } THEN -1 ELSE CHOOSE k \in at : \A m \in at : k <= m

\* s.lower()
Lower(s) ==
  LET low(c) == IF Ord(c) >= 65 /\ Ord(c) <= 90 THEN Chr(Ord(c) + 32) ELSE c
      RECURSIVE go(_)
      go(k) == IF k > Len(s) THEN "" ELSE low(SubSeq(s, k, k)) \o go(k + 1)
  IN  go(1)

\* s.rstrip() for trailing blanks and newlines
RECURSIVE RStrip(_)
RStrip(s) ==
  IF s /= "" /\ SubSeq(s, Len(s), Len(s)) \in { " ", "\n" }
    THEN RStrip(SubSeq(s, 1, Len(s) - 1))
    ELSE s

\* a parameter that counts as set to true when it is left out
TrueUnlessFalse(p) == p /= Some(FALSE)

\* whether a parameter is set and true
Truthy(p) == p /= None /\ p[1] = TRUE

\* an option and its value, when the parameter is set
Opt(flag, p) == IF p = None THEN << >> ELSE << flag, p[1] >>

\* the same for an int parameter
OptInt(flag, p) == IF p = None THEN << >> ELSE << flag, StrOf(p[1]) >>

\* ---------------------------------------------- the modules: their commands
Smcli == "/opt/zthin/bin/smcli"

\* zvm_user.py
UserParams ==
  { [ name |-> "LINUX1", exists |-> e, erasemode |-> m, prototype |-> pr,
      newpass |-> None, accounting |-> None, dirfile |-> None ] :
      e \in { None, Some(TRUE), Some(FALSE) }, m \in { None, Some(2) },
      pr \in { None, Some("PROTO") } }

UserCommand(p) ==
  IF Truthy(p.exists)
    THEN << Smcli, "Image_Create_DM", "-T", p.name >> \o Opt("-p", p.prototype)
         \o Opt("-w", p.newpass) \o Opt("-a", p.accounting) \o Opt("-f", p.dirfile)
    ELSE << Smcli, "Image_Delete_DM", "-T", p.name, "-e",
            IF p.erasemode /= None THEN StrOf(p.erasemode[1]) ELSE "0" >>

UserErrs ==
  << "Image or profile name already defined", "Image or profile definition not found" >>

\* zvm_clone_disk.py
CloneDiskParams ==
  { [ name |-> "LINUX1", diskaddr |-> "0200", srcname |-> "GOLD", srcaddr |-> "0100",
      diskalloc |-> a, diskloc |-> None, diskmode |-> None, diskrpw |-> None,
      diskwpw |-> None, diskmpw |-> None ] : a \in { None, Some("AUTOG") } }

CloneDiskCommand(p) ==
  << Smcli, "Image_Disk_Copy_DM", "-T", p.name, "-t", p.diskaddr, "-S", p.srcname,
     "-s", p.srcaddr >>
  \o Opt("-a", p.diskalloc) \o Opt("-n", p.diskloc) \o Opt("-m", p.diskmode)
  \o Opt("-r", p.diskrpw) \o Opt("-w", p.diskwpw) \o Opt("-x", p.diskmpw)

CloneDiskErrs == << "Image disk already defined" >>

\* zvm_update_user.py
UpdateUserParams ==
  { [ name |-> "LINUX1", newpass |-> None, vcpus |-> v, vcputype |-> None,
      maxcpus |-> None, mem |-> m, maxmem |-> None, memsuffix |-> s ] :
      v \in { None, Some(1), Some(2) }, m \in { None, Some(4) },
      s \in { None, Some("G") } }

\* str + None raises TypeError
UpdateUserRaises(p) ==
  (p.mem /= None \/ p.maxmem /= None) /\ p.memsuffix = None

UpdateUserCommand(p) ==
  << Smcli, "Image_Definition_Update_DM", "-T", p.name >>
  \o (IF p.newpass /= None THEN << "-k", "PASSWORD=" \o p.newpass[1] >> ELSE << >>)
  \o (IF p.vcpus = None THEN << >>
      ELSE IF p.vcpus[1] > 1
        THEN IF p.vcputype /= None
               THEN << "-k", "COMMAND_DEFINE_CPU= CPUADDR=0-" \o StrOf(p.vcpus[1] - 1)
                             \o " TYPE=" \o p.vcputype[1] >>
               ELSE << "-k", "COMMAND_DEFINE_CPU= CPUADDR=0-" \o StrOf(p.vcpus[1] - 1) >>
        ELSE IF p.vcputype /= None
               THEN << "-k", "COMMAND_DEFINE_CPU= CPUADDR=0 TYPE=" \o p.vcputype[1] >>
               ELSE << "-k", "COMMAND_DEFINE_CPU= CPUADDR=0" >>)
  \o (IF p.maxcpus /= None
        THEN << "-k", "CPU_MAXIMUM= COUNT=" \o StrOf(p.maxcpus[1]) \o " TYPE=Z" >>
        ELSE << >>)
  \o (IF p.mem /= None
        THEN << "-k", "STORAGE_INITIAL=" \o StrOf(p.mem[1]) \o p.memsuffix[1] >>
        ELSE << >>)
  \o (IF p.maxmem /= None
        THEN << "-k", "STORAGE_MAXIMUM=" \o StrOf(p.maxmem[1]) \o p.memsuffix[1] >>
        ELSE << >>)

UpdateUserErrs == << "Image or profile name already defined" >>

\* zvm_reader_empty.py
ReaderEmptyParams == { [ name |-> "LINUX1" ] }

ReaderEmptyCommand(p) == << "vmcp", "purge", p.name, "rdr", "all" >>

ReaderEmptyErrs == << "Image or profile name already defined" >>

\* zvm_fileto_rdr.py
FiletoRdrParams ==
  { [ name |-> "LINUX1", punchaddr |-> a, fileclass |-> c, asfilename |-> None,
      filename |-> "/tmp/f" ] :
      a \in { Some("0.0.000d") }, c \in { None, Some("A") } }

PunchAddr(p) == IF p.punchaddr /= None THEN p.punchaddr[1] ELSE "0.0.000d"

\* the three commands that bring the punch online, before the primary one
DevOnlineCommands(p) ==
  << << "cio_ignore", "-r", PunchAddr(p) >>,
     << "sleep", "1s" >>,
     << "chccwdev", "-e", PunchAddr(p) >> >>

FiletoRdrCommand(p) ==
  << "vmur", "punch", "-d", "/dev/vmpun-" \o PunchAddr(p) >>
  \o Opt("-N", p.asfilename)
  \o << "-C", IF p.fileclass /= None THEN p.fileclass[1] ELSE "X" >>
  \o << "-r", "-u", p.name, p.filename >>

FiletoRdrErrs == << "Image or profile name already defined" >>

\* zvm_minidisk.py
MinidiskParams ==
  { [ name |-> "LINUX1", diskaddr |-> "0200", disktype |-> None, diskalloc |-> None,
      diskloc |-> None, diskunits |-> None, disksize |-> s, diskmode |-> None,
      diskformat |-> f, diskrpw |-> None, diskwpw |-> None, diskmpw |-> None,
      diskwipe |-> w, exists |-> e ] :
      s \in { Some(100) }, f \in { None, Some(TRUE), Some(FALSE) },
      w \in { None, Some(1) }, e \in { Some(TRUE), Some(FALSE) } }

MinidiskCommand(p) ==
  IF Truthy(p.exists)
    THEN << Smcli, "Image_Disk_Create_DM", "-T", p.name >>
         \o << "-v", p.diskaddr >>
         \o Opt("-t", p.disktype) \o Opt("-a", p.diskalloc) \o Opt("-r", p.diskloc)
         \o OptInt("-u", p.diskunits) \o OptInt("-z", p.disksize)
         \o Opt("-m", p.diskmode)
         \o << "-f", "1" >>
         \o Opt("-R", p.diskrpw) \o Opt("-W", p.diskwpw) \o Opt("-M", p.diskmpw)
    ELSE << Smcli, "Image_Disk_Delete_DM", "-T", p.name >>
         \o << "-v", p.diskaddr >>
         \o << "-e", IF p.diskwipe /= None THEN StrOf(p.diskwipe[1]) ELSE "0" >>

\* lines 248-255: any diskformat that is not None asks for the format
FlagFormat(p) == Truthy(p.exists) /\ p.diskformat /= None

MinidiskErrs(p) ==
  IF Truthy(p.exists) THEN << "Image disk already defined" >>
  ELSE << "Image disk does not exist" >>

\* zvm_dedicate_dev.py
DedicateDevParams ==
  { [ name |-> "LINUX1", virtaddr |-> "1000", realaddr |-> r, readonly |-> ro,
      exists |-> e ] :
      r \in { Some("2000") }, ro \in { None, Some(TRUE) },
      e \in { Some(TRUE), Some(FALSE) } }

DedicateDevCommand(p) ==
  IF Truthy(p.exists)
    THEN << Smcli, "Image_Device_Dedicate_DM", "-T", p.name, "-v", p.virtaddr >>
         \o Opt("-r", p.realaddr)
         \o << IF p.readonly = Some(TRUE) THEN "-R 1" ELSE "-R 0" >>
    ELSE << Smcli, "Image_Device_Undedicate_DM", "-T", p.name, "-v", p.virtaddr >>

DedicateDevErrs(p) ==
  IF Truthy(p.exists) THEN << "Image device already defined" >>
  ELSE << "Image device not defined" >>

\* zvm_startstop_user.py
StartstopUserParams ==
  { [ name |-> "LINUX1", loggedon |-> l, viaSMAPI |-> v, stoptime |-> t,
      IPLdev |-> None, CMD |-> None ] :
      l \in { Some(TRUE), Some(FALSE) }, v \in { None, Some(TRUE) },
      t \in { None, Some(30) } }

StartstopUserCommand(p) ==
  IF Truthy(p.loggedon)
    THEN IF Truthy(p.viaSMAPI)
           THEN << Smcli, "Image_Activate", "-T", p.name >>
           ELSE << "vmcp", "xautolog", p.name >> \o Opt("IPL", p.IPLdev)
                \o Opt("CMD", p.CMD)
    ELSE IF Truthy(p.viaSMAPI)
           THEN << Smcli, "Image_Deactivate", "-T", p.name >>
                \o OptInt("-f", p.stoptime)
           ELSE << "vmcp", "force", p.name >> \o OptInt("within", p.stoptime)

StartstopUserErrs == << "Image already active", "HCPUSO045E", "not logged on" >>

\* zvm_setshare.py
SetshareParams ==
  { [ name |-> "LINUX1", zvmhost |-> "zvm", port |-> 44444, authuser |-> "MAINT",
      authpass |-> "PW", sharetype |-> t, shareval |-> 9 ] : t \in { "REL", "ABS" } }

SetshareCommand(p) ==
  (p.sharetype \o " ")
  \o (IF p.sharetype = "REL" THEN StrOf(p.shareval) ELSE StrOf(p.shareval) \o "%")

\* zvm_dirm_nicdef.py
DirmNicdefParams ==
  { [ name |-> "LINUX1", zvmhost |-> "zvm", port |-> 44444, authuser |-> "MAINT",
      authpass |-> "PW", devno |-> "0600", nictype |-> ty, lanname |-> l,
      lanowner |-> "SYSTEM", vlanid |-> v, macid |-> m, exists |-> e ] :
      ty \in { "QDIO", "HIPER" }, l \in { None, Some("LAN1") },
      v \in { None, Some("7") }, m \in { None, Some("0A0B0C") },
      e \in { TRUE, FALSE } }

\* a command text with the VLAN put before the LAN
DirmNicdefCommandVlanFirst(p) ==
  p.devno
  \o (IF p.exists
        THEN " TYPE " \o p.nictype
             \o (IF p.vlanid /= None THEN " VLAN " \o p.vlanid[1] ELSE "")
             \o (IF p.lanname /= None
                   THEN " LAN " \o p.lanowner \o " " \o p.lanname[1] ELSE "")
             \o (IF p.macid /= None THEN " MACID " \o p.macid[1] ELSE "")
        ELSE " DELETE")

\* lines 173-185: cmd_string
DirmNicdefCommand(p) ==
  p.devno
  \o (IF p.exists
        THEN " TYPE " \o p.nictype
             \o (IF p.lanname /= None
                   THEN " LAN " \o p.lanowner \o " " \o p.lanname[1] ELSE "")
             \o (IF p.vlanid /= None THEN " VLAN " \o p.vlanid[1] ELSE "")
             \o (IF p.macid /= None THEN " MACID " \o p.macid[1] ELSE "")
        ELSE " DELETE")

\* ------------------------------------------------ the modules, side by side
ClientModules == { "zvm_setshare", "zvm_dirm_nicdef" }

CommandModules ==
  { "zvm_user", "zvm_clone_disk", "zvm_update_user", "zvm_reader_empty",
    "zvm_fileto_rdr", "zvm_minidisk", "zvm_dedicate_dev", "zvm_startstop_user" }

Modules == CommandModules \cup ClientModules

ParamsOf(m) ==
  CASE m = "zvm_user" -> UserParams
    [] m = "zvm_clone_disk" -> CloneDiskParams
    [] m = "zvm_update_user" -> UpdateUserParams
    [] m = "zvm_reader_empty" -> ReaderEmptyParams
    [] m = "zvm_fileto_rdr" -> FiletoRdrParams
    [] m = "zvm_minidisk" -> MinidiskParams
    [] m = "zvm_dedicate_dev" -> DedicateDevParams
    [] m = "zvm_startstop_user" -> StartstopUserParams
    [] m = "zvm_setshare" -> SetshareParams
    [] m = "zvm_dirm_nicdef" -> DirmNicdefParams

\* the primary command of a module that runs one
CommandOf(m, p) ==
  CASE m = "zvm_user" -> UserCommand(p)
    [] m = "zvm_clone_disk" -> CloneDiskCommand(p)
    [] m = "zvm_update_user" -> UpdateUserCommand(p)
    [] m = "zvm_reader_empty" -> ReaderEmptyCommand(p)
    [] m = "zvm_fileto_rdr" -> FiletoRdrCommand(p)
    [] m = "zvm_minidisk" -> MinidiskCommand(p)
    [] m = "zvm_dedicate_dev" -> DedicateDevCommand(p)
    [] m = "zvm_startstop_user" -> StartstopUserCommand(p)

\* whether building the command raises
BuildRaises(m, p) == m = "zvm_update_user" /\ UpdateUserRaises(p)

\* no module runs its primary command with check_rc=True
CheckRcNowhere(m) == FALSE

\* the modules that run their primary command with check_rc=True
CheckRc(m) == m \in { "zvm_reader_empty", "zvm_fileto_rdr" }

\* notreally_errs of the operation
NotreallyErrs(m, p) ==
  CASE m = "zvm_user" -> UserErrs
    [] m = "zvm_clone_disk" -> CloneDiskErrs
    [] m = "zvm_update_user" -> UpdateUserErrs
    [] m = "zvm_reader_empty" -> ReaderEmptyErrs
    [] m = "zvm_fileto_rdr" -> FiletoRdrErrs
    [] m = "zvm_minidisk" -> MinidiskErrs(p)
    [] m = "zvm_dedicate_dev" -> DedicateDevErrs(p)
    [] m = "zvm_startstop_user" -> StartstopUserErrs
    [] m \in ClientModules -> << >>

\* the api name and command text a module gives call_client
ApiOf(m) == IF m = "zvm_setshare" THEN "Cp_SetShare" ELSE "Dirm_Nicdef"

CmdStringOf(m, p) ==
  IF m = "zvm_setshare" THEN SetshareCommand(p) ELSE DirmNicdefCommand(p)

\* --------------------------------------------------- the benign-text scan
\* a count of the benign texts that are the whole of the text
CountWholeText(text, errs) ==
  Cardinality({ j \in 1..Len(errs) : text = errs[j] })

\* for j in notreally_errs: if return_stdout.find(j) != -1: noterror_count += 1
CountInText(text, errs) ==
  Cardinality({ j \in 1..Len(errs) : Find(text, errs[j]) /= -1 })

\* for i in return_stdout: for j in notreally_errs: if i.find(j) != -1: ...
\* with return_stdout a str, i is each of its characters in turn
CountInChars(text, errs) ==
  Cardinality({ kj \in (1..Len(text)) \X (1..Len(errs)) :
                  Find(SubSeq(text, kj[1], kj[1]), errs[kj[2]]) /= -1 })

\* the modules that scan character by character and append() the marker
CharwiseModules ==
  { "zvm_user", "zvm_clone_disk", "zvm_update_user", "zvm_reader_empty",
    "zvm_fileto_rdr" }

NoterrorCount(m, text, errs) ==
  IF m \in CharwiseModules THEN CountInChars(text, errs)
  ELSE CountInText(text, errs)

\* the marker a module adds to return_stdout with +=
MarkerOf(m) ==
  CASE m \in { "zvm_minidisk", "zvm_dedicate_dev" }
         -> "\n\n >> skipping an error because its probably OK in this situation  <<"
    [] m = "zvm_startstop_user"
         -> ">>skipping an error because its probably OK in this situation<<"
    [] m \in ClientModules
         -> ">> skipping an error because its probably OK in this situation <<"

\* the message of the failure on a return code >= 1
FailingMsg(m, res) ==
  IF m = "zvm_fileto_rdr"
    THEN "failing message from vmur is: " \o res.return_stdout.str
    ELSE "failing return code from smcli is: " \o StrOf(res.return_code)

\* the message of the failure on any other return code
UnknownMsg(m, res) ==
  IF m = "zvm_fileto_rdr"
    THEN "unknown return code from vmur: " \o StrOf(res.return_code)
    ELSE "unknown return code from smcli: " \o StrOf(res.return_code)

\* ------------------------------------------------------ a module's steps
\* what a command can answer: its return code, stdout and stderr
ReturnCodes == { 0, 1, 400, -9 }

\* the text of an error no list calls benign
OtherError == "ULGSMC5400E some other error"

\* stdout texts for an operation: empty, an error that is not benign, each
\* benign text inside a longer one, the first one in lower case, and the
\* first two together
OutputsOf(errs) ==
  { "", OtherError }
  \cup { "rc: " \o errs[j] \o "\n" : j \in 1..Len(errs) }
  \cup { Lower(errs[j]) : j \in 1..Min(1, Len(errs)) }
  \cup { errs[1] \o ", " \o errs[j] : j \in 2..Min(2, Len(errs)) }

CommandResults(errs) ==
  { [ rc |-> c, stdout |-> o, stderr |-> e, from |-> "run_command" ] :
      c \in ReturnCodes, o \in OutputsOf(errs), e \in { "", "warn\n" } }

\* what the commands around the primary one can answer
StepResults ==
  { [ rc |-> 0, stdout |-> "", stderr |-> "", from |-> "run_command" ],
    [ rc |-> 1, stdout |-> "", stderr |-> "failed\n", from |-> "run_command" ] }

\* the addresses os.urandom(2) can give, as hex text
LoclAddrs == { "0a1b", "ffff" }

\* an exit that reports changed=False whatever the result holds
ExitJsonNotChanged(res) ==
  /\ outcome' = [ via |-> "exit_json", by |-> "run_module", msg |-> "",
                  out |-> [ res EXCEPT !.changed = FALSE ] ]
  /\ mpc' = "done"

\* module.exit_json(**result)
ExitJson(res) ==
  /\ outcome' = [ via |-> "exit_json", by |-> "run_module", msg |-> "", out |-> res ]
  /\ mpc' = "done"

\* module.fail_json(errormsg, **result)
FailJson(errormsg, res) ==
  /\ outcome' = [ via |-> "fail_json", by |-> "run_module", msg |-> errormsg,
                  out |-> res ]
  /\ mpc' = "done"

\* run_command(..., check_rc=True) on a return code that is not 0: it calls
\* fail_json itself, with cmd, rc, stdout and stderr and no result dict
CommandFails(argv, r) ==
  /\ outcome' = [ via |-> "fail_json", by |-> "run_command", msg |-> RStrip(r.stderr),
                  out |-> [ cmd |-> argv, rc |-> r.rc, stdout |-> r.stdout,
                            stderr |-> r.stderr ] ]
  /\ mpc' = "done"

\* an exception leaves run_module: the module ends with a traceback
Raises(what) ==
  /\ outcome' = [ via |-> "raised", by |-> "run_module", msg |-> what,
                  out |-> result ]
  /\ mpc' = "done"

\* the classification an invocation ended with
Kind ==
  CASE outcome.via = "exit_json" /\ smcli_results.from = "none" -> "NotRun"
    [] outcome.via = "exit_json" /\ smcli_results.from /= "none"
         -> IF outcome.out.changed THEN "Changed" ELSE "AlreadySatisfied"
    [] outcome.via = "fail_json" /\ outcome.by = "run_command" -> "CommandFailed"
    [] outcome.via = "fail_json" /\ outcome.by = "run_module"
         -> IF SubSeq(outcome.msg, 1, 7) = "unknown" THEN "UnknownReturnCode"
            ELSE "Failed"
    [] outcome.via = "raised" -> "Raised"
    [] outcome.via = "none" -> "none"

\* what the next invocation can know of this one
Summary ==
  IF smcli_results.from = "none" THEN NoRun
  ELSE [ rc |-> smcli_results.rc, stdout |-> smcli_results.stdout,
         errs |-> NotreallyErrs(module, params), kind |-> Kind ]

\* the task is invoked: a new process, nothing kept from the one before
Invoke(Mods, maxRuns) ==
  /\ \/ mpc = "idle" /\ pc = "call"
     \/ mpc = "done" /\ runs < maxRuns
  /\ runs' = runs + 1
  /\ prev' = IF mpc = "done" THEN Summary ELSE prev
  /\ module' \in Mods
  /\ params' \in ParamsOf(module')
  /\ check_mode' \in BOOLEAN
  /\ mpc' = "entered"
  /\ flag_format' = FALSE /\ locladdr' = ""
  /\ smcli_results' = NoResults
  /\ result' = InitialResult
  /\ scanned' = FALSE
  /\ cmds' = << >>
  /\ outcome' = NoOutcome
  /\ apicommand' = << >> /\ authuser' = << >> /\ authpass' = << >>
  /\ target' = << >> /\ args' = << >>
  /\ peer' = Peer(<< >>, 0, 0, 0, << >>, 0)
  /\ wire' = << >>
  /\ pc' = "call"
  /\ thecommand' = << >> /\ cmdbytes' = << >>
  /\ numzeros' = -1 /\ resp_length' = -1 /\ request_num' = -1
  /\ return_code' = -1 /\ reason_code' = -1 /\ num_messages' = -1
  /\ response' = << >> /\ messages' = << >> /\ message_lines' = << >>
  /\ i' = -1
  /\ retval' = NoValue
  /\ raisedAt' = "none"
  /\ io' = << >> /\ sent' = << >> /\ log' = << >>
  /\ UNCHANGED pair

\* the lines a module's steps leave alone
Client == << inputs, pc, locals, retval, raisedAt, peer, wire, io, sent, log >>

\* a module that does not look at check_mode
CheckModeIgnored ==
  /\ mpc = "entered"
  /\ mpc' = IF module = "zvm_fileto_rdr" THEN "devonline" ELSE "command"
  /\ UNCHANGED << module, params, check_mode, flag_format, locladdr,
                  smcli_results, result, scanned, cmds, outcome, history, pair,
                  Client >>

\* if module.check_mode: module.exit_json(**result)
CheckMode ==
  /\ mpc = "entered"
  /\ IF check_mode
       THEN ExitJson(result)
       ELSE /\ mpc' = IF module = "zvm_fileto_rdr" THEN "devonline" ELSE "command"
            /\ UNCHANGED outcome
  /\ UNCHANGED << module, params, check_mode, flag_format, locladdr,
                  smcli_results, result, scanned, cmds, history, pair, Client >>

\* zvm_fileto_rdr: cio_ignore -r and chccwdev -e with check_rc=False, and
\* sleep 1s between them with check_rc=True
DevOnline ==
  /\ mpc = "devonline"
  /\ \E r1, r2, r3 \in StepResults :
       LET c == DevOnlineCommands(params)
       IN  IF r2.rc /= 0
             THEN /\ cmds' = cmds \o << c[1], c[2] >>
                  /\ CommandFails(c[2], r2)
             ELSE /\ cmds' = cmds \o c
                  /\ mpc' = "command"
                  /\ UNCHANGED outcome
  /\ UNCHANGED << module, params, check_mode, flag_format, locladdr,
                  smcli_results, result, scanned, history, pair, Client >>

\* the primary command is built and run, and its answer put in result
RunCommand ==
  /\ mpc = "command"
  /\ module \in CommandModules
  /\ IF BuildRaises(module, params)
       THEN /\ Raises("TypeError")
            /\ UNCHANGED << flag_format, smcli_results, result, cmds >>
       ELSE \E r \in CommandResults(NotreallyErrs(module, params)) :
              /\ cmds' = Append(cmds, CommandOf(module, params))
              /\ flag_format' = (module = "zvm_minidisk" /\ FlagFormat(params))
              /\ IF CheckRc(module) /\ r.rc /= 0
                   THEN /\ CommandFails(CommandOf(module, params), r)
                        /\ UNCHANGED << smcli_results, result >>
                   ELSE /\ smcli_results' = r
                        /\ result' = [ result EXCEPT
                                         !.return_stdout = Text(r.stdout),
                                         !.return_stderr = Text(r.stderr),
                                         !.return_code = r.rc ]
                        /\ mpc' = "classify"
                        /\ UNCHANGED outcome
  /\ UNCHANGED << module, params, check_mode, locladdr, scanned, history, pair, Client >>

\* zvm_setshare and zvm_dirm_nicdef: call_client is entered with the
\* module's parameters and one command text
CallClient ==
  /\ mpc = "command"
  /\ module \in ClientModules
  /\ CallWith({ Encoded(ApiOf(module)) }, { Encoded(params.authuser) },
              { Encoded(params.authpass) }, { Encoded(params.name) },
              { << Encoded(CmdStringOf(module, params)) >> })
  /\ mpc' = "call_client"
  /\ UNCHANGED << module, params, check_mode, flag_format, locladdr,
                  smcli_results, result, scanned, cmds, outcome, history, pair >>

\* the peers a module meets: the sample ones, one that fails the command, and
\* one that reports success with a line that is not ASCII
ModulePeers ==
  SamplePeers \cup { FullPeer(ToBytes4(1), 400, 8, 1, << << 77 >> >>),
                     FullPeer(ToBytes4(1), 0, 0, 1, << << 200 >> >>) }

SendAllModule == SendAllTo(ModulePeers)

\* call_client returned: smcli_results[0], [1] and [2] go into result
ClientReturned ==
  /\ mpc = "call_client"
  /\ pc = "returned"
  /\ IF retval.isList
       THEN /\ smcli_results' = [ rc |-> retval.items[1],
                                  stdout |-> Decoded(retval.items[3]),
                                  stderr |-> "", from |-> "call_client" ]
            /\ result' = [ result EXCEPT
                             !.return_code = retval.items[1],
                             !.reason_code = retval.items[2],
                             !.return_stdout = Text(Decoded(retval.items[3])) ]
            /\ mpc' = "classify"
            /\ UNCHANGED outcome
       ELSE /\ Raises("TypeError")
            /\ UNCHANGED << smcli_results, result >>
  /\ UNCHANGED << module, params, check_mode, flag_format, locladdr, scanned,
                  cmds, history, pair, Client >>

\* an exception left call_client: it leaves run_module too
ClientRaised ==
  /\ mpc = "call_client"
  /\ pc = "raised"
  /\ Raises(raisedAt)
  /\ UNCHANGED << module, params, check_mode, flag_format, locladdr,
                  smcli_results, result, scanned, cmds, history, pair, Client >>

\* if result['return_code'] == 0: changed, and the exit, or in zvm_minidisk
\* the format of the new disk first
Changed ==
  /\ mpc = "classify"
  /\ result.return_code = 0
  /\ result' = [ result EXCEPT !.changed = TRUE ]
  /\ IF flag_format
       THEN mpc' = "link" /\ UNCHANGED outcome
       ELSE ExitJson(result')
  /\ UNCHANGED << module, params, check_mode, flag_format, locladdr,
                  smcli_results, scanned, cmds, history, pair, Client >>

\* a benign error that is reported as a change
AlreadySatisfiedChanged ==
  /\ mpc = "classify"
  /\ result.return_code >= 1
  /\ NoterrorCount(module, result.return_stdout.str,
                   NotreallyErrs(module, params)) > 0
  /\ scanned' = TRUE
  /\ IF module \in CharwiseModules
       THEN Raises("AttributeError") /\ UNCHANGED result
       ELSE /\ result' = [ result EXCEPT
                             !.return_stdout = Text(@.str \o MarkerOf(module)),
                             !.changed = TRUE ]
            /\ ExitJson(result')
  /\ UNCHANGED << module, params, check_mode, flag_format, locladdr,
                  smcli_results, cmds, history, pair, Client >>

\* if result['return_code'] >= 1, and the scan counted a benign text: the
\* marker is added and the module exits. append() on a str raises.
AlreadySatisfied ==
  /\ mpc = "classify"
  /\ result.return_code >= 1
  /\ NoterrorCount(module, result.return_stdout.str,
                   NotreallyErrs(module, params)) > 0
  /\ scanned' = TRUE
  /\ IF module \in CharwiseModules
       THEN Raises("AttributeError") /\ UNCHANGED result
       ELSE /\ result' = [ result EXCEPT
                             !.return_stdout = Text(@.str \o MarkerOf(module)) ]
            /\ ExitJson(result')
  /\ UNCHANGED << module, params, check_mode, flag_format, locladdr,
                  smcli_results, cmds, history, pair, Client >>

\* if result['return_code'] >= 1, and the scan counted nothing
Failed ==
  /\ mpc = "classify"
  /\ result.return_code >= 1
  /\ NoterrorCount(module, result.return_stdout.str,
                   NotreallyErrs(module, params)) = 0
  /\ scanned' = TRUE
  /\ FailJson(FailingMsg(module, result), result)
  /\ UNCHANGED << module, params, check_mode, flag_format, locladdr,
                  smcli_results, result, cmds, history, pair, Client >>

\* any other return code
UnknownReturnCode ==
  /\ mpc = "classify"
  /\ ~ (result.return_code = 0)
  /\ ~ (result.return_code >= 1)
  /\ result' = [ result EXCEPT
                   !.return_stderr = ListOf(<< "how did we get here???" >>) ]
  /\ FailJson(UnknownMsg(module, result), result')
  /\ UNCHANGED << module, params, check_mode, flag_format, locladdr,
                  smcli_results, scanned, cmds, history, pair, Client >>

\* one command of zvm_minidisk's format, run with check_rc=True
FormatStep(at, argv, next) ==
  /\ mpc = at
  /\ cmds' = Append(cmds, argv)
  /\ \E r \in StepResults :
       IF r.rc /= 0 THEN CommandFails(argv, r)
       ELSE IF next = "exit" THEN ExitJson(result)
       ELSE mpc' = next /\ UNCHANGED outcome
  /\ UNCHANGED << module, params, check_mode, flag_format, smcli_results,
                  result, scanned, history, pair, Client >>

\* a link that is tried again at a new address until it succeeds
LinkRetrying ==
  /\ mpc = "link"
  /\ locladdr' \in LoclAddrs
  /\ cmds' = Append(cmds, << "vmcp", "link", params.name, params.diskaddr,
                             locladdr', "W" >>)
  /\ mpc' \in { "link", "chccwdev_e" }
  /\ UNCHANGED << module, params, check_mode, flag_format, smcli_results,
                  result, scanned, outcome, history, pair, Client >>

\* lines 283-294: a random address, and the new disk linked at it
Link ==
  /\ locladdr' \in LoclAddrs
  /\ FormatStep("link",
                << "vmcp", "link", params.name, params.diskaddr, locladdr', "W" >>,
                "chccwdev_e")

\* lines 297-301
ChccwdevOnline ==
  /\ FormatStep("chccwdev_e", << "chccwdev", "-e", locladdr >>, "dasdfmt")
  /\ UNCHANGED locladdr

\* lines 307-314
Dasdfmt ==
  /\ FormatStep("dasdfmt",
                << "dasdfmt", "-b", "4096", "-d", "CDL", "-y",
                   "/dev/disk/by-path/ccw-0.0." \o locladdr >>,
                "chccwdev_d")
  /\ UNCHANGED locladdr

\* lines 320-324
ChccwdevOffline ==
  /\ FormatStep("chccwdev_d", << "chccwdev", "-d", locladdr >>, "detach")
  /\ UNCHANGED locladdr

\* lines 330-338: the detach, and the exit
Detach ==
  /\ FormatStep("detach", << "vmcp", "detach", locladdr >>, "exit")
  /\ UNCHANGED locladdr

\* one invocation of any module
Start == Invoke(Modules, 1)

ModuleStep ==
  \/ CheckMode
  \/ DevOnline
  \/ RunCommand
  \/ CallClient
  \/ SendAllModule
  \/ ClientReturned
  \/ ClientRaised
  \/ Changed
  \/ AlreadySatisfied
  \/ Failed
  \/ UnknownReturnCode
  \/ Link
  \/ ChccwdevOnline
  \/ Dasdfmt
  \/ ChccwdevOffline
  \/ Detach

NextModule == Start \/ ModuleStep \/ Step

SpecModule == Init /\ [][NextModule]_vars

\* the task invoked again and again, each time as a new process
Reinvoke == Invoke(Modules, MaxRuns)

NextRerun == Reinvoke \/ ModuleStep \/ Step

SpecRerun == Init /\ [][NextRerun]_vars

\* ------------------------------------------- two calls at the same time
\* call_client keeps everything in locals and in a socket of its own (lines
\* 23-38): a call that is not running keeps all of it until it runs again
Suspended ==
  [ apicommand |-> apicommand, authuser |-> authuser, authpass |-> authpass,
    target |-> target, args |-> args,
    peer |-> peer, wire |-> wire, pc |-> pc,
    thecommand |-> thecommand, cmdbytes |-> cmdbytes, numzeros |-> numzeros,
    resp_length |-> resp_length, request_num |-> request_num,
    return_code |-> return_code, reason_code |-> reason_code,
    num_messages |-> num_messages, response |-> response,
    messages |-> messages, message_lines |-> message_lines, i |-> i,
    retval |-> retval, raisedAt |-> raisedAt, io |-> io, sent |-> sent,
    log |-> log ]

\* a resume that finds message_lines as the other call left it
ResumeSharingLines(o) ==
  /\ apicommand' = o.apicommand /\ authuser' = o.authuser
  /\ authpass' = o.authpass /\ target' = o.target /\ args' = o.args
  /\ peer' = o.peer /\ wire' = o.wire /\ pc' = o.pc
  /\ thecommand' = o.thecommand /\ cmdbytes' = o.cmdbytes
  /\ numzeros' = o.numzeros /\ resp_length' = o.resp_length
  /\ request_num' = o.request_num /\ return_code' = o.return_code
  /\ reason_code' = o.reason_code /\ num_messages' = o.num_messages
  /\ response' = o.response /\ messages' = o.messages
  /\ UNCHANGED message_lines /\ i' = o.i
  /\ retval' = o.retval /\ raisedAt' = o.raisedAt /\ io' = o.io
  /\ sent' = o.sent /\ log' = o.log

\* the call that was not running goes on where it was
Resume(o) ==
  /\ apicommand' = o.apicommand /\ authuser' = o.authuser
  /\ authpass' = o.authpass /\ target' = o.target /\ args' = o.args
  /\ peer' = o.peer /\ wire' = o.wire /\ pc' = o.pc
  /\ thecommand' = o.thecommand /\ cmdbytes' = o.cmdbytes
  /\ numzeros' = o.numzeros /\ resp_length' = o.resp_length
  /\ request_num' = o.request_num /\ return_code' = o.return_code
  /\ reason_code' = o.reason_code /\ num_messages' = o.num_messages
  /\ response' = o.response /\ messages' = o.messages
  /\ message_lines' = o.message_lines /\ i' = o.i
  /\ retval' = o.retval /\ raisedAt' = o.raisedAt /\ io' = o.io
  /\ sent' = o.sent /\ log' = o.log

\* the scheduler lets the other call run, between any two steps
Switch ==
  /\ other' = Suspended
  /\ Resume(other)
  /\ active' = 3 - active
  /\ UNCHANGED << run, history >>

\* a few requests: two passwords that are ASCII and one that is not
CallPair ==
  /\ CallWith({ << 67, 112 >> }, { << 85 >> },
              { << 80 >>, << 81, 81 >>, << 233 >> }, { << 84 >> },
              { << << 88 >> >>, << << 88 >>, << 88 >> >> })
  /\ UNCHANGED context

NextPair == CallPair \/ SendAllModule \/ Step \/ Switch

SpecPair == Init /\ [][NextPair]_vars

\* ---------------------------------------------------------------- claims
\* the triple of a failed exchange, as the specification words it
SentinelTriple == Results(Unset9999, Unset9999, << >>)

Ended == pc \in { "returned", "raised" }

\* the second recv returned
Phase2Received ==
  /\ Len(SelectSeq(io, LAMBDA o : o = "recv")) = 2
  /\ raisedAt /= "recv2"

\* C1: when connecting fails, call_client returns the sentinel triple
\* (9999, 9999, "") and no exception propagates out of it.
C1_ConnectFailureReturnsSentinel ==
  raisedAt = "connect" => (pc = "returned" /\ retval = SentinelTriple)

\* C2: whenever sendall, a receive or the ASCII decoding of a line fails,
\* call_client returns exactly (9999, 9999, ""), whatever had been decoded
\* before the failure.
C2_ExchangeFailureReturnsSentinel ==
  (pc = "returned" /\ raisedAt \in { "sendall", "recv1", "recv2", "decode" })
    => retval = SentinelTriple

\* C3: on every exit of call_client (return or exception) close has been
\* called on the connection.
C3_ClosedOnEveryExit ==
  Ended => \E k \in 1..Len(io) : io[k] = "close"

\* C5: every return of call_client hands the caller a list of three values.
C5_ReturnsTriple ==
  pc = "returned" => (retval.isList /\ Len(retval.items) = 3)

\* C6: when a text is not ASCII, the encoding error is raised before any
\* network I/O: no connect, send or receive has been performed.
C6_EncodingErrorBeforeNetwork ==
  raisedAt = "encode" => io = << >>

\* the socket calls made, close left out
OpsBeforeClose == SelectSeq(io, LAMBDA o : o /= "close")

NominalOps == << "connect", "sendall", "recv", "recv" >>

\* C4: in every call there is exactly one connect, at most one sendall of
\* one frame and at most one read cycle, phase 1 then phase 2; after a
\* failure nothing is sent, read or connected again.
C4_OneExchange ==
  /\ Len(OpsBeforeClose) <= Len(NominalOps)
  /\ OpsBeforeClose = SubSeq(NominalOps, 1, Len(OpsBeforeClose))
  /\ \A k \in 1..(Len(io) - 1) : io[k] /= "close"
  /\ Len(sent) <= 1
  /\ \A k \in 1..Len(sent) : sent[k] = cmdbytes
  /\ (pc \notin { "call", "connect" }) => Len(OpsBeforeClose) >= 1
  /\ raisedAt = "connect" => OpsBeforeClose = << "connect" >>
  /\ raisedAt = "encode" => OpsBeforeClose = << "connect" >>
  /\ raisedAt = "sendall" => OpsBeforeClose = << "connect", "sendall" >>
  /\ raisedAt = "recv1" => OpsBeforeClose = << "connect", "sendall", "recv" >>
  /\ raisedAt \in { "recv2", "decode" } => OpsBeforeClose = NominalOps
  /\ (pc = "returned" /\ raisedAt = "none" /\ Len(args) <= 1)
       => io = NominalOps \o << "close" >>

C4_Witness ==
  /\ pc = "returned" /\ raisedAt = "none"
  /\ io = << "connect", "sendall", "recv", "recv", "close" >>
  /\ message_lines /= << >>

\* the claim's u32be: four bytes, most significant first
U32be(n) == [ k \in 1..4 |-> (n \div (256 ^ (4 - k))) % 256 ]

\* the command text of the call: the one trailing argument, or none
CommandText == IF Len(args) = 1 THEN args[1] ELSE << >>

\* C7: the byte string passed to sendall is u32be(N), then api_name,
\* auth_user, auth_pass and target each behind its u32be length, then the
\* command text with no length of its own, N being 16 plus the five lengths.
C7_FrameLayout ==
  \A k \in 1..Len(sent) :
    sent[k] =
      U32be(16 + Len(apicommand) + Len(authuser) + Len(authpass) + Len(target)
               + Len(CommandText))
      \o U32be(Len(apicommand)) \o apicommand
      \o U32be(Len(authuser)) \o authuser
      \o U32be(Len(authpass)) \o authpass
      \o U32be(Len(target)) \o target
      \o CommandText

C7_Witness ==
  /\ Len(sent) = 1
  /\ Len(apicommand) = 1 /\ Len(authuser) = 2 /\ Len(authpass) = 1
  /\ Len(target) = 2 /\ Len(CommandText) = 2

\* the message text that carries the lines, each followed by one "\n"
JoinLines(lines) == Flatten([ j \in 1..Len(lines) |-> lines[j] \o << Newline >> ])

\* the peer sent a well-formed frame: as many lines as it declares, each
\* non-empty and ASCII, and the phase-2 recv returned all of it
WellFormed(p) ==
  /\ p.count = Len(p.lines)
  /\ \A j \in 1..Len(p.lines) : p.lines[j] /= << >> /\ IsAscii(p.lines[j])
  /\ p.keep = Len(FrameOf(p))

StopAt(p) ==
  LET n == Min(p.count, Len(p.lines))
      zeros == { j \in 1..n : p.lines[j] = << >> }
  IN  IF zeros = { } THEN n
      ELSE (CHOOSE j \in zeros : \A z \in zeros : j <= z) - 1

\* C9: line parsing stops at the first of message_count lines consumed or a
\* line of declared length 0: message_count = 0 gives the empty text, and a
\* zero-length line at position k gives the first k lines only, every later
\* line ignored.
C9_ParseStops ==
  ( /\ pc = "returned" /\ Phase2Received
    /\ peer.keep = Len(FrameOf(peer))
    /\ \A j \in 1..StopAt(peer) : IsAscii(peer.lines[j]) )
    => /\ raisedAt = "none"
       /\ retval = Results(peer.rc, peer.rs,
                           JoinLines(SubSeq(peer.lines, 1, StopAt(peer))))
       /\ peer.count = 0 => retval.items[3] = << >>

C9_Witness ==
  /\ pc = "returned" /\ Phase2Received
  /\ peer.keep = Len(FrameOf(peer))
  /\ peer.count = 3 /\ Len(peer.lines) = 3
  /\ peer.lines[1] /= << >> /\ peer.lines[2] = << >> /\ peer.lines[3] /= << >>
  /\ retval.items[3] = peer.lines[1] \o << Newline >>

\* whether, reading n lines from msgs, some line declares more bytes than
\* are left
RECURSIVE LineOverrun(_, _)
LineOverrun(msgs, n) ==
  /\ n > 0
  /\ LET len == FromBytes(PySlice(msgs, 0, 4))
     IN  /\ len /= 0
         /\ \/ len + 4 > Len(msgs)
            \/ LineOverrun(PyFrom(msgs, len + 4), n - 1)

\* C10: when the phase-2 receive returns fewer than the 20 header bytes, or a
\* line declares more bytes than remain in the buffer, decoding fails and the
\* call yields the failure result instead of a decoded triple.
C10_ShortFrameFails ==
  ( /\ pc = "returned" /\ Phase2Received
    /\ \/ Len(response) < 20
       \/ LineOverrun(PyFrom(response, 20), FromBytes(PySlice(response, 16, 20))) )
    => raisedAt /= "none" /\ retval = SentinelTriple

\* C11: the returned triple does not depend on how the transport cuts the
\* response into receive results: whatever part of the frame the phase-2
\* receive returns, the call returns what it returns when the whole frame
\* arrives in that one receive.
C11_SegmentationIndependent ==
  ( /\ pc = "returned" /\ Phase2Received
    /\ \A j \in 1..StopAt(peer) : IsAscii(peer.lines[j]) )
    => retval = Results(peer.rc, peer.rs,
                        JoinLines(SubSeq(peer.lines, 1, StopAt(peer))))

\* a module has ended after its primary command answered
Classified == mpc = "done" /\ smcli_results.from /= "none"

\* the text sub occurs somewhere in s, character for character
Occurs(sub, s) ==
  \E k \in 1..(Len(s) - Len(sub) + 1) : SubSeq(s, k, k + Len(sub) - 1) = sub

\* some text of an operation's benign list occurs in s
SomeBenign(errs, s) == \E j \in 1..Len(errs) : Occurs(errs[j], s)

\* the exit without failure and with changed=False
EndsAlreadySatisfied == outcome.via = "exit_json" /\ ~ outcome.out.changed

\* C12: in zvm_minidisk, zvm_dedicate_dev and zvm_startstop_user, on a return
\* code >= 1 the module exits without failure and with changed=False if and
\* only if some text of the operation's benign list occurs, case-sensitively,
\* in the captured stdout; which one, or how many, makes no difference.
C12_BenignIffOccurs ==
  ( /\ Classified
    /\ module \in { "zvm_minidisk", "zvm_dedicate_dev", "zvm_startstop_user" }
    /\ smcli_results.rc >= 1 )
    => ( EndsAlreadySatisfied
           <=> SomeBenign(NotreallyErrs(module, params), smcli_results.stdout) )

C12_Witness ==
  /\ Classified /\ module = "zvm_startstop_user" /\ smcli_results.rc = 400
  /\ Occurs("Image already active", smcli_results.stdout)
  /\ Occurs("HCPUSO045E", smcli_results.stdout)
  /\ EndsAlreadySatisfied

\* C13: in zvm_user and zvm_clone_disk, on a return code >= 1 with a benign
\* text of the module somewhere in the captured stdout, the module exits
\* without failure and with changed=False.
C13_BenignExitsClean ==
  ( /\ Classified
    /\ module \in { "zvm_user", "zvm_clone_disk" }
    /\ smcli_results.rc >= 1
    /\ SomeBenign(NotreallyErrs(module, params), smcli_results.stdout) )
    => EndsAlreadySatisfied

\* the primary command has answered and the module has ended: the answer is
\* in smcli_results, or in the failure run_command raised on it
PrimaryAnswered ==
  /\ mpc = "done"
  /\ \/ smcli_results.from /= "none"
     \/ /\ outcome.by = "run_command" /\ module \in CommandModules
        /\ ~ BuildRaises(module, params)
        /\ outcome.out.cmd = CommandOf(module, params)

PrimaryRc ==
  IF smcli_results.from /= "none" THEN smcli_results.rc ELSE outcome.out.rc

PrimaryStdout ==
  IF smcli_results.from /= "none" THEN smcli_results.stdout ELSE outcome.out.stdout

\* the failure reports the return code rc, in its message or in its result
ReportsRc(rc) ==
  \/ Occurs(StrOf(rc), outcome.msg)
  \/ "return_code" \in DOMAIN outcome.out /\ outcome.out.return_code = rc
  \/ "rc" \in DOMAIN outcome.out /\ outcome.out.rc = rc

\* C14: in every module, when the primary command's return code is >= 1 and
\* no benign text of the operation occurs in stdout, the module ends through
\* fail_json with changed=False, with the return code in the failure message
\* or result, and with return_stdout the full captured text, nothing added.
C14_FailureCarriesText ==
  ( /\ PrimaryAnswered
    /\ PrimaryRc >= 1
    /\ ~ SomeBenign(NotreallyErrs(module, params), PrimaryStdout) )
    => /\ outcome.via = "fail_json"
       /\ "changed" \in DOMAIN outcome.out => ~ outcome.out.changed
       /\ ReportsRc(PrimaryRc)
       /\ "return_stdout" \in DOMAIN outcome.out
       /\ outcome.out.return_stdout = Text(PrimaryStdout)

\* C15: in every module, the format path of zvm_minidisk's create left
\* aside, a primary command that returns 0 makes the module exit successfully
\* with changed=True, without any scan for benign texts, and with
\* return_stdout exactly what the command or call_client gave.
C15_ZeroIsChanged ==
  ( /\ PrimaryAnswered
    /\ PrimaryRc = 0
    /\ ~ flag_format )
    => /\ outcome.via = "exit_json"
       /\ outcome.out.changed
       /\ ~ scanned
       /\ outcome.out.return_stdout = Text(PrimaryStdout)
       /\ module \in ClientModules
            => Encoded(outcome.out.return_stdout.str) = retval.items[3]

C15_Witness ==
  /\ PrimaryAnswered /\ PrimaryRc = 0
  /\ module = "zvm_startstop_user"
  /\ SomeBenign(NotreallyErrs(module, params), PrimaryStdout)
  /\ outcome.via = "exit_json" /\ outcome.out.changed

\* the text s begins with pre
StartsWith(s, pre) == Len(s) >= Len(pre) /\ SubSeq(s, 1, Len(pre)) = pre

\* C16: a return code of the primary command that is neither 0 nor >= 1
\* always ends the module through the "unknown return code" failure, with
\* return_stderr replaced by ["how did we get here???"]; it is never reported
\* as changed, as already satisfied or as the "failing return code" failure.
C16_NegativeIsUnknown ==
  ( /\ PrimaryAnswered
    /\ PrimaryRc /= 0 /\ ~ (PrimaryRc >= 1) )
    => /\ outcome.via = "fail_json"
       /\ StartsWith(outcome.msg, "unknown return code")
       /\ "return_stderr" \in DOMAIN outcome.out
       /\ outcome.out.return_stderr = ListOf(<< "how did we get here???" >>)

\* C17: the classification is a function of the return code, the stdout text
\* and the operation's benign list alone: an invocation that agrees on the
\* three with the one before it ends as that one did, whatever else differs.
C17_ClassificationIsPure ==
  ( /\ Classified
    /\ prev.kind /= "none"
    /\ prev.rc = smcli_results.rc
    /\ prev.stdout = smcli_results.stdout
    /\ prev.errs = NotreallyErrs(module, params) )
    => Kind = prev.kind

\* the commands of the format that have been run: every command after the
\* primary one
FormatCommandsRun == SubSeq(cmds, 2, Len(cmds))

\* the option and its value follow one another in the command
PassesOption(argv, flag, value) ==
  \E k \in 1..(Len(argv) - 1) : argv[k] = flag /\ argv[k + 1] = value

\* C20: in zvm_minidisk with exists=true, once Image_Disk_Create_DM returned
\* 0, the link, chccwdev -e, dasdfmt, chccwdev -d, detach sequence is run if
\* and only if diskformat is true: with diskformat false or omitted none of
\* them is run. The create command is always given "-f 1".
C20_FormatIffDiskformat ==
  (module = "zvm_minidisk" /\ Truthy(params.exists) /\ cmds /= << >>)
    => /\ PassesOption(cmds[1], "-f", "1")
       /\ FormatCommandsRun /= << >> => params.diskformat = Some(TRUE)
       /\ ( /\ params.diskformat = Some(TRUE)
            /\ mpc = "done" /\ outcome.via = "exit_json"
            /\ smcli_results.rc = 0 )
            => [ k \in 1..5 |-> FormatCommandsRun[k][1] ]
                 = << "vmcp", "chccwdev", "dasdfmt", "chccwdev", "vmcp" >>

\* the two calls, the one running now and the one that is not
Calls == << Suspended, other >>

\* where the connection failed a call, if it did
TransportFailure(c) ==
  IF c.raisedAt \in { "connect", "sendall", "recv1", "recv2" }
    THEN c.raisedAt ELSE "none"

\* two calls that differ in auth_pass only
DifferInPasswordOnly(c, d) ==
  /\ c.apicommand = d.apicommand /\ c.authuser = d.authuser
  /\ c.target = d.target /\ c.args = d.args
  /\ c.authpass /= d.authpass

\* two calls that saw the same of their connections: the same calls made on
\* the socket, the same answers, the same failure
SameTransport(c, d) ==
  /\ c.io = d.io /\ c.peer = d.peer
  /\ TransportFailure(c) = TransportFailure(d)

CallEnded(c) == c.pc \in { "returned", "raised" }

\* C18: what call_client prints does not depend on auth_pass: two calls that
\* differ in auth_pass only and saw the same of their connections printed the
\* same lines in the same order, and no printed line shows the assembled
\* frame, which holds the password.
C18_LogIndependentOfPassword ==
  /\ \A k \in 1..2 : \A j \in 1..Len(Calls[k].log) :
       Calls[k].cmdbytes /= << >> => Calls[k].log[j][2] /= Calls[k].cmdbytes
  /\ ( /\ CallEnded(Suspended) /\ CallEnded(other)
       /\ DifferInPasswordOnly(Suspended, other)
       /\ SameTransport(Suspended, other) )
       => log = other.log

C18_Witness ==
  /\ pc = "returned" /\ other.pc = "returned"
  /\ DifferInPasswordOnly(Suspended, other)
  /\ SameTransport(Suspended, other)
  /\ IsAscii(authpass) /\ IsAscii(other.authpass)
  /\ cmdbytes /= << >> /\ other.cmdbytes /= cmdbytes
  /\ raisedAt = "decode"
  /\ log = other.log /\ Len(log) > 6

\* the message text call_client gets from n lines of msgs: the lines before
\* the first of length 0 and before the first that is not ASCII
RECURSIVE ParsedLines(_, _)
ParsedLines(msgs, n) ==
  IF n <= 0 \/ BreakOnZero(LineLenOf(msgs)) \/ ~ IsAscii(LineOf(msgs))
    THEN << >>
    ELSE LineOf(msgs) \o << Newline >> \o ParsedLines(AfterLine(msgs), n - 1)

\* what a call returns when it runs alone: a function of its arguments, of
\* what its peer answers and of where its connection fails
AloneResult(c) ==
  IF Len(c.args) > 1
    THEN [ isList |-> FALSE, items |-> << Unset9999 >> ]
  ELSE IF c.raisedAt \in { "sendall", "recv1", "recv2" }
    THEN SentinelTriple
  ELSE LET resp == WireOf(c.peer)[2]
       IN  Results(ReturnCodeOf(resp), ReasonCodeOf(resp),
                   ParsedLines(MessagesOf(resp), NumMessagesOf(resp)))

\* C19: two call_client calls that run at the same time, each on its own
\* connection, share nothing: however their steps interleave, each returns
\* what it returns alone against the same peer, and a connection is closed by
\* its own call only, when that call ends.
C19_CallsAreIndependent ==
  \A k \in 1..2 :
    LET c == Calls[k]
    IN  /\ c.pc = "returned" => c.retval = AloneResult(c)
        /\ (\E j \in 1..Len(c.io) : c.io[j] = "close")
             => (c.pc = "returned" /\ c.io[Len(c.io)] = "close")

C19_Witness ==
  /\ pc = "returned" /\ other.pc = "returned"
  /\ raisedAt = "none" /\ other.raisedAt = "none"
  /\ peer /= other.peer
  /\ retval.isList /\ other.retval.isList
  /\ retval.items[3] /= << >> /\ other.retval.items[3] /= << >>
  /\ retval.items[3] /= other.retval.items[3]
  /\ io[Len(io)] = "close" /\ other.io[Len(other.io)] = "close"

\* C21: in check mode every module exits at once with the result it started
\* with (changed False, return_code -9, reason_code -9, empty return_stdout
\* and return_stderr), and before that exit no command is run and no
\* connection is opened.
C21_CheckModeExitsUntouched ==
  (check_mode /\ mpc /= "idle")
    => /\ mpc \in { "entered", "done" }
       /\ cmds = << >> /\ io = << >> /\ sent = << >> /\ pc = "call"
       /\ smcli_results = NoResults
       /\ mpc = "done"
            => /\ outcome.via = "exit_json"
               /\ outcome.out = InitialResult
               /\ outcome.out.changed = FALSE
               /\ outcome.out.return_code = -9 /\ outcome.out.reason_code = -9
               /\ outcome.out.return_stdout = ListOf(<< >>)
               /\ outcome.out.return_stderr = ListOf(<< >>)

C21_Witness ==
  /\ check_mode /\ mpc = "done" /\ module = "zvm_setshare"
  /\ outcome.via = "exit_json" /\ outcome.out = InitialResult
  /\ io = << >> /\ cmds = << >>

\* the pieces of a command text, put together with nothing between them
RECURSIVE Joined(_)
Joined(parts) == IF parts = << >> THEN "" ELSE Head(parts) \o Joined(Tail(parts))

\* the NICDEF text the claim describes
NicdefText(p) ==
  IF p.exists
    THEN Joined(<< p.devno, " TYPE ", p.nictype >>
                \o (IF p.lanname = None THEN << >>
                    ELSE << " LAN ", p.lanowner, " ", p.lanname[1] >>)
                \o (IF p.vlanid = None THEN << >> ELSE << " VLAN ", p.vlanid[1] >>)
                \o (IF p.macid = None THEN << >> ELSE << " MACID ", p.macid[1] >>))
    ELSE Joined(<< p.devno, " DELETE" >>)

\* the values of the parameters that are set, among those a DELETE leaves out
NicdefValues(p) ==
  { p.nictype, p.lanowner }
  \cup { p.lanname[1] : x \in { 1 } \cap DOMAIN p.lanname }
  \cup { p.vlanid[1] : x \in { 1 } \cap DOMAIN p.vlanid }
  \cup { p.macid[1] : x \in { 1 } \cap DOMAIN p.macid }

\* C22: zvm_dirm_nicdef calls SMAPI with api name "Dirm_Nicdef", target = name
\* and the text "<devno> TYPE <nictype>" followed, in this order and only for
\* the parameters that are set, by " LAN <lanowner> <lanname>",
\* " VLAN <vlanid>" and " MACID <macid>" when exists is true, and exactly
\* "<devno> DELETE" with none of those values in it when exists is false;
\* that text is what goes out in the frame.
C22_NicdefCommandText ==
  (module = "zvm_dirm_nicdef" /\ pc /= "call")
    => /\ Decoded(apicommand) = "Dirm_Nicdef"
       /\ Decoded(target) = params.name
       /\ Len(args) = 1
       /\ Decoded(args[1]) = NicdefText(params)
       /\ ~ params.exists
            => /\ Decoded(args[1]) = params.devno \o " DELETE"
               /\ \A v \in NicdefValues(params) : Find(Decoded(args[1]), v) = -1
       /\ \A k \in 1..Len(sent) :
            /\ Len(sent[k]) >= Len(args[1])
            /\ Decoded(PyFrom(sent[k], Len(sent[k]) - Len(args[1])))
                 = NicdefText(params)

C22_Witness ==
  /\ module = "zvm_dirm_nicdef" /\ Len(sent) = 1
  /\ params.exists /\ params.lanname /= None /\ params.vlanid /= None
  /\ params.macid /= None
  /\ Decoded(args[1]) = "0600 TYPE QDIO LAN SYSTEM LAN1 VLAN 7 MACID 0A0B0C"

\* C23: call_client returns return_code 0 only when the phase-2 receive gave
\* at least the 12 bytes that hold a return_code field and that field is 0,
\* and zvm_setshare and zvm_dirm_nicdef report changed=True only then.
C23_ZeroOnlyIfDelivered ==
  /\ (pc = "returned" /\ retval.isList /\ retval.items[1] = 0)
       => (Phase2Received /\ Len(response) >= 12)
  /\ (module \in ClientModules /\ mpc = "done" /\ outcome.via = "exit_json"
      /\ outcome.out.changed)
       => (Phase2Received /\ Len(response) >= 12)

\* C24: the line loop of call_client ends for every buffer and every
\* message_count, however large: a turn that does not leave the loop takes at
\* least one byte off the buffer, so the turns taken never exceed the bytes
\* consumed, whatever message_count is, and the call always returns.
C24_LineLoopTerminates ==
  /\ [](pc = "parse" => i + Len(messages) <= Len(MessagesOf(response)))
  /\ [][(pc = "parse" /\ pc' = "parse")
          => (i' = i + 1 /\ Len(messages') < Len(messages))]_vars
  /\ (pc = "parse") ~> (pc = "returned")

C24_Witness ==
  /\ pc = "returned" /\ raisedAt = "none"
  /\ peer.count = 2147483647 /\ Len(peer.lines) = 2
  /\ num_messages = 2147483647 /\ i = 2
  /\ messages = << >>
  /\ retval.items[3] = JoinLines(peer.lines)

\* a run of zvm_setshare or zvm_dirm_nicdef that ended after call_client
\* returned its triple
EndedAfterTriple ==
  /\ module \in ClientModules /\ mpc = "done"
  /\ pc = "returned" /\ retval.isList

\* C25: in zvm_setshare and zvm_dirm_nicdef the return code call_client gives
\* is never negative, so a run that got a triple ends either changed (return
\* code 0) or with the "failing return code" failure (return code >= 1, the
\* 9999 of a failed exchange included), never as AlreadySatisfied or with
\* "unknown return code", and an exchange that failed is never reported as
\* success.
C25_ClientOutcomes ==
  EndedAfterTriple
    => /\ result.return_code >= 0
       /\ Kind \in { "Changed", "Failed" }
       /\ Kind = "Changed" <=> result.return_code = 0
       /\ Kind = "Failed" => StartsWith(outcome.msg, "failing return code")
       /\ raisedAt /= "none" => Kind = "Failed"

\* the module reported a result dict of its own, through exit_json or
\* fail_json
ReportsResult ==
  /\ mpc = "done" /\ outcome.by = "run_module"
  /\ outcome.via \in { "exit_json", "fail_json" }

\* C26: whenever a module ends, changed=True is reported only if the primary
\* command (smcli, vmcp, vmur or the SMAPI call) returned 0; the
\* AlreadySatisfied exit, the two failure exits and the check-mode exit report
\* changed=False together with the return code they got (-9 when no command
\* ran), and a failure raised by run_command reports no change at all.
C26_ChangedOnlyOnZero ==
  /\ ReportsResult
       => /\ outcome.out.changed
               => (smcli_results.from /= "none" /\ smcli_results.rc = 0)
          /\ Kind \in { "AlreadySatisfied", "Failed", "UnknownReturnCode" }
               => /\ ~ outcome.out.changed
                  /\ outcome.out.return_code = smcli_results.rc
                  /\ smcli_results.rc /= 0
          /\ Kind = "NotRun"
               => (~ outcome.out.changed /\ outcome.out.return_code = -9)
  /\ (mpc = "done" /\ outcome.by = "run_command")
       => "changed" \notin DOMAIN outcome.out

C26_Witness ==
  /\ ReportsResult /\ module = "zvm_minidisk" /\ Kind = "AlreadySatisfied"
  /\ ~ outcome.out.changed /\ outcome.out.return_code = 400
  /\ smcli_results.rc = 400

\* the commands of zvm_minidisk's format at the local address a, in order
FormatSequence(p, a) ==
  << << "vmcp", "link", p.name, p.diskaddr, a, "W" >>,
     << "chccwdev", "-e", a >>,
     << "dasdfmt", "-b", "4096", "-d", "CDL", "-y", "/dev/disk/by-path/ccw-0.0." \o a >>,
     << "chccwdev", "-d", a >>,
     << "vmcp", "detach", a >> >>

\* the commands issued after the primary one
AfterPrimary == SubSeq(cmds, 2, Len(cmds))

\* how many vmcp link commands were issued
LinkAttempts ==
  Cardinality({ k \in 1..Len(cmds) : cmds[k][1] = "vmcp" /\ cmds[k][2] = "link" })

Linked ==
  /\ module = "zvm_minidisk" /\ LinkAttempts = 1
  /\ ~ (mpc = "done" /\ outcome.by = "run_command"
        /\ outcome.out.cmd[2] = "link")
  /\ mpc /= "link"

\* C28: in zvm_minidisk, once vmcp link has succeeded for the local address
\* the module never ends without having issued vmcp detach for that address,
\* on every path, the failures of chccwdev -e, dasdfmt and chccwdev -d
\* included.
C28_DetachedBeforeExit ==
  (Linked /\ mpc = "done")
    => \E k \in 1..Len(cmds) : cmds[k] = << "vmcp", "detach", locladdr >>

C30_CreateIffExists ==
  (module = "zvm_user" /\ cmds /= << >>)
    => /\ Len(cmds) = 1
       /\ cmds[1][1] = Smcli
       /\ cmds[1][2] = "Image_Create_DM" <=> params.exists = Some(TRUE)
       /\ params.exists = Some(TRUE)
            => SubSeq(cmds[1], 1, 4)
                 = << Smcli, "Image_Create_DM", "-T", params.name >>
       /\ params.exists /= Some(TRUE)
            => cmds[1] = << Smcli, "Image_Delete_DM", "-T", params.name, "-e",
                            IF params.erasemode = None THEN "0"
                            ELSE StrOf(params.erasemode[1]) >>

C30_Witness ==
  /\ module = "zvm_user" /\ params.exists = None /\ params.erasemode = None
  /\ cmds = << << Smcli, "Image_Delete_DM", "-T", "LINUX1", "-e", "0" >> >>

====
